---- MODULE Spec2Model ----
(***************************************************************************)
(* The configuration-and-launch subsystem of the pump-raydium program:     *)
(* Configure::handler (instructions/admin/configure.rs) and                *)
(* CreateBondingCurve::handler (instructions/curve/create_bonding_curve.rs)*)
(* as a state machine over the ledger accounts the two instructions touch. *)
(*                                                                         *)
(* Every instruction is one action.  The handler is an operator from the   *)
(* ledger before the call to a result record                               *)
(*     [err, ledger, log, trace]                                           *)
(* (the staged ledger, the data logged and the steps executed so far);     *)
(* the host commits the staged ledger when err = "Ok" and discards it      *)
(* otherwise.  The program log is not part of the ledger.                  *)
(***************************************************************************)
EXTENDS Integers, Sequences, FiniteSets, TLC

VARIABLES
    lamports,               \* native balance of every system-level account
    config_owner,           \* owner program of the config PDA
    config_data,            \* data buffer of the config PDA (a sequence of cells)
    global_wsol_account,    \* does the vault's WSOL token account exist
    token,                  \* mint accounts, by mint address
    bonding_curve,          \* BondingCurve PDAs, by mint address
    global_token_account,   \* the vault's token account of each mint
    token_metadata_account, \* metadata PDAs, by mint address
    events,                 \* LaunchEvents logged so far
    overflow_checks,        \* build profile: are arithmetic overflows checked
    credits,                \* transfers made into the PDAs from outside so far
    last                    \* outcome of the last instruction

vars == <<lamports, config_owner, config_data, global_wsol_account, token,
          bonding_curve, global_token_account, token_metadata_account,
          events, overflow_checks, credits, last>>

(***************************************************************************)
(* Bounds of the model.                                                    *)
(***************************************************************************)
\* width in bits of the model's u64 (the program's is 64)
WordBits == 8
\* longest variable-length tail of a serialized Config, in cells
MaxExtension == 1
\* transfers into the program's PDAs from outside the program
MaxCredits == 1

Keys == {"alice", "bob"}
Mints == {"mintA", "mintB"}

PROGRAM_ID == "pump_raydium"
SYSTEM_PROGRAM_ID == "system_program"
CONFIG == "global-config"
GLOBAL == "global"

U64_MAX == 2^WordBits - 1
U8_MAX == 255

(***************************************************************************)
(* Rent.                                                                   *)
(***************************************************************************)
ACCOUNT_STORAGE_OVERHEAD == 128
LAMPORTS_PER_BYTE_YEAR == 3480
EXEMPTION_THRESHOLD == 2

\* Rent::minimum_balance
minimum_balance(data_len) ==
    (ACCOUNT_STORAGE_OVERHEAD + data_len) * LAMPORTS_PER_BYTE_YEAR * EXEMPTION_THRESHOLD

(***************************************************************************)
(* Config and its Borsh encoding.  One cell stands for one fixed-width     *)
(* field; the buffer of a fresh account is zero-filled.                    *)
(***************************************************************************)
DISCRIMINATOR == <<155, 12, 170, 224, 30, 250, 204, 130>>

RangeConfig(lo, hi) == [min |-> lo, max |-> hi]

\* RangeConfig::validate, inclusive on both ends
validate(range, value) ==
    IF value < range.min \/ value > range.max THEN "OutOfRange" ELSE "Ok"

ConfigProfiles == {
    [team_wallet |-> "alice",
     lamport_amount_config |-> RangeConfig(1, 2),
     token_supply_config |-> RangeConfig(1, 100),
     token_decimals_config |-> RangeConfig(0, 2),
     initial_virtual_sol_reserves_config |-> 30,
     initial_virtual_token_reserves_config |-> 107,
     initial_real_token_reserves_config |-> 79],
    [team_wallet |-> "bob",
     lamport_amount_config |-> RangeConfig(0, 1),
     token_supply_config |-> RangeConfig(0, 100),
     token_decimals_config |-> RangeConfig(1, U8_MAX),
     initial_virtual_sol_reserves_config |-> 31,
     initial_virtual_token_reserves_config |-> 108,
     initial_real_token_reserves_config |-> 80] }

Zeros(n) == [i \in 1..n |-> 0]

\* the Config values an instruction may carry
Configs ==
    { [authority |-> a,
       team_wallet |-> p.team_wallet,
       lamport_amount_config |-> p.lamport_amount_config,
       token_supply_config |-> p.token_supply_config,
       token_decimals_config |-> p.token_decimals_config,
       initial_virtual_sol_reserves_config |-> p.initial_virtual_sol_reserves_config,
       initial_virtual_token_reserves_config |-> p.initial_virtual_token_reserves_config,
       initial_real_token_reserves_config |-> p.initial_real_token_reserves_config,
       extension |-> Zeros(n)]
      : a \in Keys, p \in ConfigProfiles, n \in 0..MaxExtension }

\* Pubkey <-> cell
PubkeyToCell(k) == IF k = "alice" THEN 1 ELSE IF k = "bob" THEN 2 ELSE 0
PubkeyFromCell(c) == IF c = 1 THEN "alice" ELSE IF c = 2 THEN "bob" ELSE "default"

\* number of cells of the fixed-width fields and the length prefix of the extension
CONFIG_HEAD_CELLS == 12

\* BorshSerialize for Config (try_to_vec)
try_to_vec(c) ==
    << PubkeyToCell(c.authority), PubkeyToCell(c.team_wallet),
       c.lamport_amount_config.min, c.lamport_amount_config.max,
       c.token_supply_config.min, c.token_supply_config.max,
       c.token_decimals_config.min, c.token_decimals_config.max,
       c.initial_virtual_sol_reserves_config,
       c.initial_virtual_token_reserves_config,
       c.initial_real_token_reserves_config,
       Len(c.extension) >> \o c.extension

\* BorshDeserialize for Config: reads a prefix of the cells, bytes after the
\* record are not looked at
deserialize(cells) ==
    IF Len(cells) < CONFIG_HEAD_CELLS THEN [ok |-> FALSE]
    ELSE IF Len(cells) < CONFIG_HEAD_CELLS + cells[CONFIG_HEAD_CELLS] THEN [ok |-> FALSE]
    ELSE [ok |-> TRUE,
          config |->
            [authority |-> PubkeyFromCell(cells[1]),
             team_wallet |-> PubkeyFromCell(cells[2]),
             lamport_amount_config |-> RangeConfig(cells[3], cells[4]),
             token_supply_config |-> RangeConfig(cells[5], cells[6]),
             token_decimals_config |-> RangeConfig(cells[7], cells[8]),
             initial_virtual_sol_reserves_config |-> cells[9],
             initial_virtual_token_reserves_config |-> cells[10],
             initial_real_token_reserves_config |-> cells[11],
             extension |-> SubSeq(cells, CONFIG_HEAD_CELLS + 1,
                                  CONFIG_HEAD_CELLS + cells[CONFIG_HEAD_CELLS])]]

DISCRIMINATOR_LEN == 8

\* data[8..]
AfterDiscriminator(data) == SubSeq(data, DISCRIMINATOR_LEN + 1, Len(data))

\* data.len() < 8 || &data[0..8] != Config::DISCRIMINATOR
DiscriminatorMismatch(data) ==
    Len(data) < DISCRIMINATOR_LEN \/ SubSeq(data, 1, DISCRIMINATOR_LEN) # DISCRIMINATOR

(***************************************************************************)
(* The ledger an instruction works on, and its result.                     *)
(***************************************************************************)
NoAccount == [exists |-> FALSE]

Ledger ==
    [lamports |-> lamports,
     config_owner |-> config_owner,
     config_data |-> config_data,
     global_wsol_account |-> global_wsol_account,
     token |-> token,
     bonding_curve |-> bonding_curve,
     global_token_account |-> global_token_account,
     token_metadata_account |-> token_metadata_account]

Start(L) == [err |-> "Ok", ledger |-> L, log |-> <<>>, trace |-> <<>>]

Fail(r, e) == [r EXCEPT !.err = e]

Step(r, name) == [r EXCEPT !.trace = Append(@, name)]

\* system_program::transfer; sol_transfer_from_user
transfer(r, from, to, amount) ==
    IF r.err # "Ok" THEN r
    ELSE IF r.ledger.lamports[from] < amount THEN Fail(r, "InsufficientFunds")
    ELSE [r EXCEPT !.ledger.lamports[from] = @ - amount,
                   !.ledger.lamports[to] = @ + amount]

\* payment of the rent deposit of an account the instruction creates
PayRent(r, payer, space) ==
    IF r.err # "Ok" THEN r
    ELSE IF r.ledger.lamports[payer] < minimum_balance(space)
         THEN Fail(r, "InsufficientFunds")
    ELSE [r EXCEPT !.ledger.lamports[payer] = @ - minimum_balance(space)]

(***************************************************************************)
(* Configure.                                                              *)
(***************************************************************************)
TOKEN_ACCOUNT_LEN == 165

\* global_wsol_account: init_if_needed, payer = payer
InitWsolIfNeeded(r, payer) ==
    IF r.err # "Ok" \/ r.ledger.global_wsol_account THEN r
    ELSE LET p == PayRent(Step(r, "init_global_wsol_account"), payer, TOKEN_ACCOUNT_LEN)
         IN  IF p.err # "Ok" THEN p
             ELSE [p EXCEPT !.ledger.global_wsol_account = TRUE]

\* system_program::create_account(from payer, to config, config_cost, len, crate::ID)
create_account(r, payer, config_cost, len) ==
    IF r.err # "Ok" THEN r
    ELSE IF r.ledger.lamports[CONFIG] > 0 THEN Fail(r, "AccountAlreadyInUse")
    ELSE LET t == transfer(Step(r, "create_account"), payer, CONFIG, config_cost)
         IN  IF t.err # "Ok" THEN t
             ELSE [t EXCEPT !.ledger.config_owner = PROGRAM_ID,
                            !.ledger.config_data = Zeros(len)]

\* the else branch without the comparison of the authority with the payer
ValidateExisting_AnyPayer(r, payer) ==
    IF r.err # "Ok" THEN r
    ELSE LET data == r.ledger.config_data
             s == Step(r, "validate_existing")
         IN  IF DiscriminatorMismatch(data) THEN Fail(s, "IncorrectConfigAccount")
             ELSE IF ~deserialize(AfterDiscriminator(data)).ok
             THEN Fail(s, "DeserializeError")
             ELSE s

\* the else branch with the record deserialized before the tag is looked at
ValidateExisting_DeserializeFirst(r, payer) ==
    IF r.err # "Ok" THEN r
    ELSE LET data == r.ledger.config_data
             s == Step(r, "validate_existing")
             d == deserialize(AfterDiscriminator(data))
         IN  IF ~d.ok THEN Fail(s, "DeserializeError")
             ELSE IF d.config.authority # payer THEN Fail(s, "IncorrectAuthority")
             ELSE IF DiscriminatorMismatch(data) THEN Fail(s, "IncorrectConfigAccount")
             ELSE s

\* the else branch: validate the existing config
ValidateExisting(r, payer) ==
    IF r.err # "Ok" THEN r
    ELSE LET data == r.ledger.config_data
             s == Step(r, "validate_existing")
         IN  IF DiscriminatorMismatch(data) THEN Fail(s, "IncorrectConfigAccount")
             ELSE LET d == deserialize(AfterDiscriminator(data))
                  IN  IF ~d.ok THEN Fail(s, "DeserializeError")
                      ELSE IF d.config.authority # payer THEN Fail(s, "IncorrectAuthority")
                      ELSE s

\* AccountInfo::realloc(new_len, false)
realloc(r, new_len) ==
    IF r.err # "Ok" THEN r
    ELSE LET data == r.ledger.config_data
         IN  [Step(r, "realloc") EXCEPT !.ledger.config_data =
                 IF new_len <= Len(data) THEN SubSeq(data, 1, new_len)
                 ELSE data \o Zeros(new_len - Len(data))]

\* the top-up with the resize moved out of the branch
TopUp_ReallocAlways(r, payer, config_cost, len) ==
    IF r.err # "Ok" THEN r
    ELSE LET lamport_delta == config_cost - r.ledger.lamports[CONFIG]
         IN  IF lamport_delta > 0
             THEN realloc(transfer(Step(r, "transfer"), payer, CONFIG, lamport_delta), len)
             ELSE realloc(r, len)

\* top up rent if needed
TopUp(r, payer, config_cost, len) ==
    IF r.err # "Ok" THEN r
    ELSE LET lamport_delta == config_cost - r.ledger.lamports[CONFIG]
         IN  IF lamport_delta > 0
             THEN realloc(transfer(Step(r, "transfer"), payer, CONFIG, lamport_delta), len)
             ELSE r

\* the write that leaves the cell of the authority as it is in the slot
copy_from_slice_KeepAuthority(r, serialized_config) ==
    IF r.err # "Ok" THEN r
    ELSE LET data == r.ledger.config_data
             len == Len(serialized_config)
             s == Step(r, "write")
         IN  IF len > Len(data) THEN Fail(s, "Panic")
             ELSE [s EXCEPT !.ledger.config_data =
                      [i \in 1..Len(data) |->
                          IF i = DISCRIMINATOR_LEN + 1 \/ i > len THEN data[i]
                          ELSE serialized_config[i]]]

\* data[..serialized_config_len].copy_from_slice(serialized_config)
copy_from_slice(r, serialized_config) ==
    IF r.err # "Ok" THEN r
    ELSE LET data == r.ledger.config_data
             len == Len(serialized_config)
             s == Step(r, "write")
         IN  IF len > Len(data) THEN Fail(s, "Panic")
             ELSE [s EXCEPT !.ledger.config_data =
                      serialized_config \o SubSeq(data, len + 1, Len(data))]

VAULT_BOOTSTRAP == 1000000

\* the vault funded by every configure
BootstrapVault_Always(r, payer) ==
    IF r.err # "Ok" THEN r
    ELSE transfer(Step(r, "bootstrap_vault"), payer, GLOBAL, VAULT_BOOTSTRAP)

\* initialize global vault if it hasn't been
BootstrapVault(r, payer) ==
    IF r.err # "Ok" THEN r
    ELSE IF r.ledger.lamports[GLOBAL] = 0
         THEN transfer(Step(r, "bootstrap_vault"), payer, GLOBAL, VAULT_BOOTSTRAP)
    ELSE r

\* the serialized record without its discriminator
serialized_config_Untagged(new_config) == try_to_vec(new_config)

\* [&Config::DISCRIMINATOR, new_config.try_to_vec()?.as_slice()].concat()
serialized_config(new_config) == DISCRIMINATOR \o try_to_vec(new_config)

\* the configure instruction: the accounts of Configure, then Configure::handler
ConfigureHandler(L, payer, new_config) ==
    LET serialized_config_len == Len(serialized_config(new_config))
        config_cost == minimum_balance(serialized_config_len)
        r0 == InitWsolIfNeeded(Start(L), payer)
        r1 == IF L.config_owner # PROGRAM_ID
              THEN create_account(r0, payer, config_cost, serialized_config_len)
              ELSE ValidateExisting(r0, payer)
        r2 == TopUp(r1, payer, config_cost, serialized_config_len)
        r3 == copy_from_slice(r2, serialized_config(new_config))
    IN  BootstrapVault(r3, payer)

(***************************************************************************)
(* CreateBondingCurve.                                                     *)
(***************************************************************************)
MINT_LEN == 82
BONDING_CURVE_SPACE == 128
METADATA_LEN == 607

\* the decimals, supplies and reserve deposits an instruction may carry
Decimals == {0, 2, 3, WordBits}
Supplies == {0, 100, 150, 232}
Reserves == {0, 1, 2, 3}

\* the collaborator call that fails for a reason outside the ledger modelled
Faults == {"none", "associated_token::create", "mint_to",
           "create_metadata_accounts_v3", "set_authority"}

METADATA == [name |-> "Foo", symbol |-> "FOO", uri |-> "ipfs://x"]

\* the arguments and accounts of the create instructions explored in depth:
\* every combination of parameters, for one mint address
CreateArgs ==
    [creator : Keys, mint : {"mintA"}, team_wallet : Keys, decimals : Decimals,
     token_supply : Supplies, reserve_lamport : Reserves, fault : Faults]

\* those explored in breadth, interleaved with configure: every mint address,
\* with parameters that pass, are no whole multiple, are out of range, overflow
LaunchParams ==
    { <<2, 100, 1>>, <<2, 150, 1>>, <<2, 100, 3>>, <<WordBits, 100, 1>> }

LaunchArgs ==
    { [creator |-> c, mint |-> m, team_wallet |-> t, decimals |-> p[1],
       token_supply |-> p[2], reserve_lamport |-> p[3], fault |-> f]
      : c \in Keys, m \in Mints, t \in Keys, p \in LaunchParams, f \in Faults }

RECURSIVE Pow10Exact(_)
\* 10^n, cut off above U64_MAX
Pow10Exact(n) ==
    IF n = 0 THEN 1
    ELSE LET p == Pow10Exact(n - 1)
         IN  IF p * 10 > U64_MAX THEN U64_MAX + 1 ELSE p * 10

RECURSIVE Pow10Wrapping(_)
\* 10^n in wrapping u64 arithmetic
Pow10Wrapping(n) ==
    IF n = 0 THEN 1 ELSE (Pow10Wrapping(n - 1) * 10) % (U64_MAX + 1)

\* 10u64.pow(decimals as u32): panics on overflow when overflows are checked,
\* wraps otherwise
pow(decimals, checks) ==
    IF Pow10Exact(decimals) > U64_MAX /\ checks THEN [panic |-> TRUE, value |-> 0]
    ELSE [panic |-> FALSE, value |-> Pow10Wrapping(decimals)]

\* the configuration loaded without a look at the owner of its slot
LoadGlobalConfig_AnyOwner(r) ==
    LET data == r.ledger.config_data
        s == Step(r, "load_global_config")
    IN  IF DiscriminatorMismatch(data) THEN Fail(s, "AccountDiscriminatorMismatch")
        ELSE IF ~deserialize(AfterDiscriminator(data)).ok
             THEN Fail(s, "AccountDidNotDeserialize")
        ELSE s

\* global_config: Box<Account<Config>>
LoadGlobalConfig(r) ==
    LET data == r.ledger.config_data
        s == Step(r, "load_global_config")
    IN  IF r.ledger.config_owner # PROGRAM_ID
        THEN IF r.ledger.lamports[CONFIG] = 0 THEN Fail(s, "AccountNotInitialized")
             ELSE Fail(s, "AccountOwnedByWrongProgram")
        ELSE IF DiscriminatorMismatch(data) THEN Fail(s, "AccountDiscriminatorMismatch")
        ELSE IF ~deserialize(AfterDiscriminator(data)).ok
             THEN Fail(s, "AccountDidNotDeserialize")
        ELSE s

\* the mint as an init_if_needed account: a mint that exists is taken as it is
InitToken_IfNeeded(r, a) ==
    IF r.err # "Ok" THEN r
    ELSE LET s == Step(r, "init_token")
         IN  IF s.ledger.token[a.mint].exists THEN s
             ELSE LET p == PayRent(s, a.creator, MINT_LEN)
                  IN  IF p.err # "Ok" THEN p
                      ELSE [p EXCEPT !.ledger.token[a.mint] =
                               [exists |-> TRUE, decimals |-> a.decimals,
                                mint_authority |-> GLOBAL, supply |-> 0]]

\* token: init, payer = creator, mint::decimals, mint::authority = global_vault
InitToken(r, a) ==
    IF r.err # "Ok" THEN r
    ELSE LET s == Step(r, "init_token")
         IN  IF s.ledger.token[a.mint].exists THEN Fail(s, "AccountAlreadyInUse")
             ELSE LET p == PayRent(s, a.creator, MINT_LEN)
                  IN  IF p.err # "Ok" THEN p
                      ELSE [p EXCEPT !.ledger.token[a.mint] =
                               [exists |-> TRUE, decimals |-> a.decimals,
                                mint_authority |-> GLOBAL, supply |-> 0]]

\* BondingCurve::default()
DefaultBondingCurve ==
    [exists |-> TRUE, token_mint |-> "default", creator |-> "default",
     init_lamport |-> 0, token_total_supply |-> 0,
     virtual_sol_reserves |-> 0, virtual_token_reserves |-> 0,
     real_sol_reserves |-> 0, real_token_reserves |-> 0, is_completed |-> FALSE]

\* bonding_curve: init, payer = creator, seeds = [BONDING_CURVE, token.key()]
InitBondingCurve(r, a) ==
    IF r.err # "Ok" THEN r
    ELSE LET s == Step(r, "init_bonding_curve")
         IN  IF s.ledger.bonding_curve[a.mint].exists THEN Fail(s, "AccountAlreadyInUse")
             ELSE LET p == PayRent(s, a.creator, BONDING_CURVE_SPACE)
                  IN  IF p.err # "Ok" THEN p
                      ELSE [p EXCEPT !.ledger.bonding_curve[a.mint] = DefaultBondingCurve]

\* the accounts without the constraint on team_wallet
CheckTeamWallet_Skipped(r, a, global_config) ==
    IF r.err # "Ok" THEN r ELSE Step(r, "check_team_wallet")

\* constraint = global_config.team_wallet == team_wallet.key() @ IncorrectAuthority
CheckTeamWallet(r, a, global_config) ==
    IF r.err # "Ok" THEN r
    ELSE LET s == Step(r, "check_team_wallet")
         IN  IF global_config.team_wallet # a.team_wallet
             THEN Fail(s, "IncorrectAuthority")
             ELSE s

\* check params
CheckParams(r, a, global_config, checks) ==
    IF r.err # "Ok" THEN r
    ELSE LET s == Step(r, "check_params")
             decimal_multiplier == pow(a.decimals, checks)
         IN  IF decimal_multiplier.panic \/ decimal_multiplier.value = 0
             THEN Fail(s, "Panic")
             ELSE IF a.token_supply % decimal_multiplier.value # 0
             THEN Fail(s, "ValueInvalid")
             ELSE IF validate(global_config.lamport_amount_config,
                              a.reserve_lamport) # "Ok"
             THEN Fail(s, "OutOfRange")
             ELSE IF validate(global_config.token_supply_config,
                              a.token_supply \div decimal_multiplier.value) # "Ok"
             THEN Fail(s, "OutOfRange")
             ELSE IF validate(global_config.token_decimals_config, a.decimals) # "Ok"
             THEN Fail(s, "OutOfRange")
             ELSE s

\* the fields set with real_token_reserves taken from the virtual token reserves
SetBondingCurveFields_RealFromVirtual(r, a, global_config) ==
    IF r.err # "Ok" THEN r
    ELSE [Step(r, "set_bonding_curve") EXCEPT !.ledger.bonding_curve[a.mint] =
            [@ EXCEPT !.token_mint = a.mint,
                      !.creator = a.creator,
                      !.init_lamport = a.reserve_lamport,
                      !.virtual_sol_reserves =
                          global_config.initial_virtual_sol_reserves_config,
                      !.virtual_token_reserves =
                          global_config.initial_virtual_token_reserves_config,
                      !.real_sol_reserves = 0,
                      !.real_token_reserves =
                          global_config.initial_virtual_token_reserves_config,
                      !.token_total_supply = a.token_supply]]

\* the fields set with the reserve deposit counted in the real sol reserves
SetBondingCurveFields_ReserveCounted(r, a, global_config) ==
    IF r.err # "Ok" THEN r
    ELSE [Step(r, "set_bonding_curve") EXCEPT !.ledger.bonding_curve[a.mint] =
            [@ EXCEPT !.token_mint = a.mint,
                      !.creator = a.creator,
                      !.init_lamport = a.reserve_lamport,
                      !.virtual_sol_reserves =
                          global_config.initial_virtual_sol_reserves_config,
                      !.virtual_token_reserves =
                          global_config.initial_virtual_token_reserves_config,
                      !.real_sol_reserves = a.reserve_lamport,
                      !.real_token_reserves =
                          global_config.initial_real_token_reserves_config,
                      !.token_total_supply = a.token_supply]]

\* the fields of bonding_curve set before the first CPI
SetBondingCurveFields(r, a, global_config) ==
    IF r.err # "Ok" THEN r
    ELSE [Step(r, "set_bonding_curve") EXCEPT !.ledger.bonding_curve[a.mint] =
            [@ EXCEPT !.token_mint = a.mint,
                      !.creator = a.creator,
                      !.init_lamport = a.reserve_lamport,
                      !.virtual_sol_reserves =
                          global_config.initial_virtual_sol_reserves_config,
                      !.virtual_token_reserves =
                          global_config.initial_virtual_token_reserves_config,
                      !.real_sol_reserves = 0,
                      !.real_token_reserves =
                          global_config.initial_real_token_reserves_config,
                      !.token_total_supply = a.token_supply]]

\* associated_token::create
associated_token_create(r, a) ==
    IF r.err # "Ok" THEN r
    ELSE LET s == Step(r, "associated_token::create")
         IN  IF a.fault = "associated_token::create" THEN Fail(s, "CollaboratorFailure")
             ELSE IF s.ledger.global_token_account[a.mint].exists
             THEN Fail(s, "AccountAlreadyInUse")
             ELSE LET p == PayRent(s, a.creator, TOKEN_ACCOUNT_LEN)
                  IN  IF p.err # "Ok" THEN p
                      ELSE [p EXCEPT !.ledger.global_token_account[a.mint] =
                               [exists |-> TRUE, owner |-> GLOBAL, mint |-> a.mint,
                                amount |-> 0]]

\* token::mint_to, signed by global_vault
mint_to(r, a) ==
    IF r.err # "Ok" THEN r
    ELSE LET s == Step(r, "mint_to")
         IN  IF a.fault = "mint_to" THEN Fail(s, "CollaboratorFailure")
             ELSE IF s.ledger.token[a.mint].mint_authority # GLOBAL
             THEN Fail(s, "OwnerMismatch")
             ELSE [s EXCEPT !.ledger.token[a.mint].supply = @ + a.token_supply,
                            !.ledger.global_token_account[a.mint].amount =
                                @ + a.token_supply]

\* metadata::create_metadata_accounts_v3, mint_authority and update_authority
\* global_vault, is_mutable = false
create_metadata_accounts_v3(r, a) ==
    IF r.err # "Ok" THEN r
    ELSE LET s == Step(r, "create_metadata_accounts_v3")
         IN  IF a.fault = "create_metadata_accounts_v3"
             THEN Fail(s, "CollaboratorFailure")
             ELSE IF s.ledger.token[a.mint].mint_authority # GLOBAL
             THEN Fail(s, "InvalidMintAuthority")
             ELSE LET p == PayRent(s, a.creator, METADATA_LEN)
                  IN  IF p.err # "Ok" THEN p
                      ELSE [p EXCEPT !.ledger.token_metadata_account[a.mint] =
                               [exists |-> TRUE, name |-> METADATA.name,
                                symbol |-> METADATA.symbol, uri |-> METADATA.uri,
                                update_authority |-> GLOBAL, is_mutable |-> FALSE]]

\* the revocation that leaves the mint authority with the vault
set_authority_Kept(r, a) ==
    IF r.err # "Ok" THEN r
    ELSE LET s == Step(r, "set_authority")
         IN  IF a.fault = "set_authority" THEN Fail(s, "CollaboratorFailure")
             ELSE IF s.ledger.token[a.mint].mint_authority # GLOBAL
             THEN Fail(s, "OwnerMismatch")
             ELSE s

\* token::set_authority(AuthorityType::MintTokens, None), signed by global_vault
set_authority(r, a) ==
    IF r.err # "Ok" THEN r
    ELSE LET s == Step(r, "set_authority")
         IN  IF a.fault = "set_authority" THEN Fail(s, "CollaboratorFailure")
             ELSE IF s.ledger.token[a.mint].mint_authority # GLOBAL
             THEN Fail(s, "OwnerMismatch")
             ELSE [s EXCEPT !.ledger.token[a.mint].mint_authority = "none"]

\* bonding_curve.is_completed = false
SetNotCompleted(r, a) ==
    IF r.err # "Ok" THEN r
    ELSE [Step(r, "set_is_completed") EXCEPT
            !.ledger.bonding_curve[a.mint].is_completed = FALSE]

\* emit!(LaunchEvent { .. })
EmitLaunchEvent(r, a, global_config) ==
    IF r.err # "Ok" THEN r
    ELSE [Step(r, "emit") EXCEPT !.log = Append(@,
            [creator |-> a.creator, mint |-> a.mint, bonding_curve |-> a.mint,
             metadata |-> a.mint, decimals |-> a.decimals,
             token_supply |-> a.token_supply,
             reserve_lamport |-> a.reserve_lamport,
             reserve_token |-> global_config.initial_real_token_reserves_config])]

\* the accounts with the constraint on team_wallet checked before the inits
CreateAccounts_CheckFirst(L, a) ==
    LET r0 == LoadGlobalConfig(Start(L))
    IN  IF r0.err # "Ok" THEN r0
        ELSE LET global_config == deserialize(AfterDiscriminator(L.config_data)).config
             IN  InitBondingCurve(InitToken(CheckTeamWallet(r0, a, global_config), a), a)

\* the accounts of CreateBondingCurve: the accounts that are not init are
\* loaded, the init accounts are created, then the constraints are checked
CreateAccounts(L, a) ==
    LET r0 == LoadGlobalConfig(Start(L))
    IN  IF r0.err # "Ok" THEN r0
        ELSE LET global_config == deserialize(AfterDiscriminator(L.config_data)).config
             IN  CheckTeamWallet(InitBondingCurve(InitToken(r0, a), a), a, global_config)

\* the handler with the event emitted right after the parameters are checked
CreateBody_EmitFirst(r, a, global_config, checks) ==
    LET r1 == CheckParams(r, a, global_config, checks)
        e  == EmitLaunchEvent(r1, a, global_config)
        r2 == SetBondingCurveFields(e, a, global_config)
        r3 == associated_token_create(r2, a)
        r4 == mint_to(r3, a)
        r5 == create_metadata_accounts_v3(r4, a)
        r6 == set_authority(r5, a)
    IN  SetNotCompleted(r6, a)

\* CreateBondingCurve::handler, from the accounts validated
CreateBody(r, a, global_config, checks) ==
    LET r1 == CheckParams(r, a, global_config, checks)
        r2 == SetBondingCurveFields(r1, a, global_config)
        r3 == associated_token_create(r2, a)
        r4 == mint_to(r3, a)
        r5 == create_metadata_accounts_v3(r4, a)
        r6 == set_authority(r5, a)
        r7 == SetNotCompleted(r6, a)
    IN  EmitLaunchEvent(r7, a, global_config)

\* the exit of the accounts after the handler has returned Ok: the account
\* structs held in memory (bonding_curve, global_config) are serialized back
\* into their slots; until then r.ledger.bonding_curve is the struct in memory
ExitAccounts(r) ==
    IF r.err # "Ok" THEN r ELSE Step(r, "exit")

\* the create_bonding_curve instruction
CreateHandler(L, a, checks) ==
    LET r == CreateAccounts(L, a)
    IN  IF r.err # "Ok" THEN r
        ELSE ExitAccounts(
                 CreateBody(r, a, deserialize(AfterDiscriminator(L.config_data)).config,
                            checks))

(***************************************************************************)
(* The host: an instruction commits all of its effects or none.            *)
(***************************************************************************)
Committed(L, r) == IF r.err = "Ok" THEN r.ledger ELSE L

Commit(r, signer, op) ==
    LET C == Committed(Ledger, r)
    IN  /\ lamports' = C.lamports
        /\ config_owner' = C.config_owner
        /\ config_data' = C.config_data
        /\ global_wsol_account' = C.global_wsol_account
        /\ token' = C.token
        /\ bonding_curve' = C.bonding_curve
        /\ global_token_account' = C.global_token_account
        /\ token_metadata_account' = C.token_metadata_account
        /\ events' = events \o r.log
        /\ last' = [op |-> op, signer |-> signer, err |-> r.err, trace |-> r.trace]

Configure ==
    \E payer \in Keys, new_config \in Configs :
        /\ Commit(ConfigureHandler(Ledger, payer, new_config), payer, "configure")
        /\ UNCHANGED <<overflow_checks, credits>>

\* configure with the Config values of one size
Reconfigure ==
    \E payer \in Keys, new_config \in {c \in Configs : c.extension = <<>>} :
        /\ Commit(ConfigureHandler(Ledger, payer, new_config), payer, "configure")
        /\ UNCHANGED <<overflow_checks, credits>>

CreateBondingCurve ==
    \E a \in CreateArgs :
        /\ Commit(CreateHandler(Ledger, a, overflow_checks), a.creator,
                  "create_bonding_curve")
        /\ UNCHANGED <<overflow_checks, credits>>

Launch ==
    \E a \in LaunchArgs :
        /\ Commit(CreateHandler(Ledger, a, overflow_checks), a.creator,
                  "create_bonding_curve")
        /\ UNCHANGED <<overflow_checks, credits>>

\* lamports of one transfer from outside: the rent of one more cell
CreditAmount == 6960

\* anybody may transfer lamports to the address of a PDA
ExternalTransfer ==
    \E to \in {CONFIG, GLOBAL} :
        /\ credits < MaxCredits
        /\ credits' = credits + 1
        /\ lamports' = [lamports EXCEPT ![to] = @ + CreditAmount]
        /\ last' = [op |-> "external_transfer", signer |-> "none", err |-> "Ok",
                    trace |-> <<>>]
        /\ UNCHANGED <<config_owner, config_data, global_wsol_account, token,
                       bonding_curve, global_token_account, token_metadata_account,
                       events, overflow_checks>>

\* the ledger before the program's first instruction
EmptyLedger ==
    [lamports |-> [a \in Keys \cup {CONFIG, GLOBAL} |->
                     IF a = "alice" THEN 40000000
                     ELSE IF a = "bob" THEN 3500000 ELSE 0],
     config_owner |-> SYSTEM_PROGRAM_ID,
     config_data |-> <<>>,
     global_wsol_account |-> FALSE,
     token |-> [m \in Mints |-> NoAccount],
     bonding_curve |-> [m \in Mints |-> NoAccount],
     global_token_account |-> [m \in Mints |-> NoAccount],
     token_metadata_account |-> [m \in Mints |-> NoAccount]]

InitLedger(L) ==
    /\ lamports = L.lamports
    /\ config_owner = L.config_owner
    /\ config_data = L.config_data
    /\ global_wsol_account = L.global_wsol_account
    /\ token = L.token
    /\ bonding_curve = L.bonding_curve
    /\ global_token_account = L.global_token_account
    /\ token_metadata_account = L.token_metadata_account

Init ==
    /\ InitLedger(EmptyLedger)
    /\ events = <<>>
    /\ overflow_checks \in BOOLEAN
    /\ credits = 0
    /\ last = [op |-> "none", signer |-> "none", err |-> "Ok", trace |-> <<>>]

\* the ledger after alice has set the configuration up
InitConfigured ==
    /\ \E new_config \in Configs :
          /\ new_config.authority = "alice"
          /\ new_config.extension = <<>>
          /\ InitLedger(ConfigureHandler(EmptyLedger, "alice", new_config).ledger)
    /\ events = <<>>
    /\ overflow_checks \in BOOLEAN
    /\ credits = 0
    /\ last = [op |-> "configure", signer |-> "alice", err |-> "Ok",
               trace |-> ConfigureHandler(EmptyLedger, "alice",
                             CHOOSE c \in Configs : TRUE).trace]

\* the tag of another account type of the program
OTHER_DISCRIMINATOR == <<23, 183, 248, 55, 96, 216, 172, 96>>

\* data a config PDA owned by the program may hold that configure did not
\* write: none, too short for a tag, zero-filled, the tag of another type before
\* a record or before cells that are no record, the tag of Config before a
\* record or before cells that are no record
ForeignSlots ==
    { <<>>,
      SubSeq(DISCRIMINATOR, 1, DISCRIMINATOR_LEN - 1),
      Zeros(DISCRIMINATOR_LEN + CONFIG_HEAD_CELLS),
      OTHER_DISCRIMINATOR \o <<1, 2>>,
      DISCRIMINATOR \o <<1, 2>> }
    \cup { tag \o try_to_vec(c) :
             tag \in {DISCRIMINATOR, OTHER_DISCRIMINATOR},
             c \in {c \in Configs : c.extension = <<>>} }

\* the config PDA is owned by the program and holds data of any provenance
InitForeignSlot ==
    /\ \E data \in ForeignSlots :
          InitLedger([EmptyLedger EXCEPT
                        !.config_owner = PROGRAM_ID,
                        !.config_data = data,
                        !.lamports[CONFIG] = minimum_balance(Len(data))])
    /\ events = <<>>
    /\ overflow_checks \in BOOLEAN
    /\ credits = 0
    /\ last = [op |-> "none", signer |-> "none", err |-> "Ok", trace |-> <<>>]

Next == Reconfigure \/ ExternalTransfer \/ Launch

\* the whole program
Spec == Init /\ [][Next]_vars

NextConfigure == Configure \/ ExternalTransfer

\* the configuration store alone
SpecConfigure == Init /\ [][NextConfigure]_vars

NextCreate == CreateBondingCurve

\* the launch protocol alone, under a configuration set up before
SpecCreate == InitConfigured /\ [][NextCreate]_vars

\* the configuration store over a slot the program owns already
SpecForeignSlot == InitForeignSlot /\ [][NextConfigure]_vars

(***************************************************************************)
(* What the claims speak of.                                               *)
(***************************************************************************)
InTrace(name, trace) == \E i \in 1..Len(trace) : trace[i] = name

\* the config PDA holds a record of the program
ConfigExists ==
    /\ config_owner = PROGRAM_ID
    /\ ~DiscriminatorMismatch(config_data)
    /\ deserialize(AfterDiscriminator(config_data)).ok

\* the record the config PDA holds
StoredConfig == deserialize(AfterDiscriminator(config_data)).config

\* the record a data buffer decodes to
Decoded(data) == deserialize(AfterDiscriminator(data))

LastConfigureOk == last.op = "configure" /\ last.err = "Ok"

LastCreatedConfig == LastConfigureOk /\ InTrace("create_account", last.trace)

(***************************************************************************)
(* C1.  The first configure on a slot the program does not own yet stores  *)
(* a record whose authority is the caller.                                 *)
(***************************************************************************)
\* C1 as claimed: after the configure that created the slot, the stored
\* authority is the signer of that call.
C1_FirstConfigureAuthorityIsCaller ==
    LastCreatedConfig => StoredConfig.authority = last.signer

\* C1 as amended: whoever the caller is, the first configure that succeeds stores
\* a record whose authority is the authority field of the proposed config; it is
\* the caller exactly when the proposed config names the caller.
C1_FirstConfigureStoresProposedAuthority ==
    config_owner # PROGRAM_ID =>
        \A payer \in Keys, new_config \in Configs :
            LET r == ConfigureHandler(Ledger, payer, new_config)
            IN  r.err = "Ok" =>
                  /\ r.ledger.config_owner = PROGRAM_ID
                  /\ Decoded(r.ledger.config_data).ok
                  /\ Decoded(r.ledger.config_data).config.authority = new_config.authority
                  /\ (Decoded(r.ledger.config_data).config.authority = payer
                        <=> new_config.authority = payer)

\* C1 witness: the slot was just created by a caller who is not the authority stored.
C1_Witness == LastCreatedConfig /\ StoredConfig.authority # last.signer

(***************************************************************************)
(* C2.  With a record stored, a configure by anybody but the stored        *)
(* authority fails with IncorrectAuthority and changes nothing.            *)
(***************************************************************************)
\* C2: in every reachable state where the config record exists, every configure
\* whose payer is not the stored authority ends with IncorrectAuthority, and the
\* ledger committed (record, capacity, deposit, vault balance) is the ledger before.
C2_NonAuthorityRejected ==
    /\ config_owner = PROGRAM_ID => ConfigExists
    /\ ConfigExists =>
        \A payer \in Keys, new_config \in Configs :
            payer # StoredConfig.authority =>
                LET r == ConfigureHandler(Ledger, payer, new_config)
                IN  /\ r.err = "IncorrectAuthority"
                    /\ Committed(Ledger, r) = Ledger
                    /\ r.log = <<>>

\* C2 witness: a configure has just been rejected with IncorrectAuthority.
C2_Witness ==
    /\ last.op = "configure" /\ last.err = "IncorrectAuthority"
    /\ ConfigExists /\ last.signer # StoredConfig.authority

(***************************************************************************)
(* C3.  A configure by the stored authority succeeds for every proposed    *)
(* config and the slot then decodes to the proposed config.                *)
(***************************************************************************)
\* C3 as claimed: for every record stored and every proposed config, larger,
\* equal or smaller, a configure by the stored authority succeeds and leaves the
\* discriminator followed by the proposed config, which decodes to it.
C3_AuthorityUpdateRoundTrips ==
    ConfigExists =>
        \A new_config \in Configs :
            LET r == ConfigureHandler(Ledger, StoredConfig.authority, new_config)
                len == Len(serialized_config(new_config))
            IN  /\ r.err = "Ok"
                /\ Len(r.ledger.config_data) >= len
                /\ SubSeq(r.ledger.config_data, 1, len) = serialized_config(new_config)
                /\ Decoded(r.ledger.config_data).ok
                /\ Decoded(r.ledger.config_data).config = new_config

(***************************************************************************)
(* C4.  A configure whose payload is larger than the slot resizes the slot *)
(* before it writes.                                                       *)
(***************************************************************************)
\* C4 as claimed: whatever the deposit of the slot, a configure by the authority
\* whose serialized config is longer than the slot resizes the slot before the
\* write, so no write is attempted into a slot shorter than the payload and the
\* slot ends at least as long as the payload.
C4_GrowResizesBeforeWrite ==
    /\ ~(last.op = "configure" /\ last.err = "Panic")
    /\ ConfigExists =>
        \A new_config \in Configs :
            LET r == ConfigureHandler(Ledger, StoredConfig.authority, new_config)
                len == Len(serialized_config(new_config))
            IN  (len > Len(config_data) /\ InTrace("write", r.trace)) =>
                  /\ InTrace("realloc", r.trace)
                  /\ Len(Committed(Ledger, r).config_data) >= len

(***************************************************************************)
(* C5.  After a successful configure the capacity of the slot is the       *)
(* serialized size and the deposit covers it.                              *)
(***************************************************************************)
\* C5 as claimed: after every successful configure the slot is exactly as long
\* as the serialized record it holds, and its lamports cover the rent of that
\* length.
C5_CapacityEqualsSerializedSize ==
    LastConfigureOk =>
        /\ Len(config_data) = Len(serialized_config(StoredConfig))
        /\ lamports[CONFIG] >= minimum_balance(Len(serialized_config(StoredConfig)))

\* C5 as amended: after every successful configure the slot is at least as long
\* as the serialized record and its lamports cover the rent of the record; the
\* slot is exactly as long as the record when the call created it or found its
\* deposit short of the rent of the record, and a call that did neither (an
\* update to a record no larger than the deposit pays for, a smaller one among
\* them) leaves the length of the slot as it was.
C5_CapacityCoversSerializedSize ==
    [][ (last'.op = "configure" /\ last'.err = "Ok") =>
          LET len == Len(serialized_config(StoredConfig'))
              resized == \/ config_owner # PROGRAM_ID
                         \/ lamports[CONFIG] < minimum_balance(len)
          IN  /\ Len(config_data') >= len
              /\ lamports'[CONFIG] >= minimum_balance(len)
              /\ resized => Len(config_data') = len
              /\ ~resized => Len(config_data') = Len(config_data) ]_vars

\* C5 witness: an update to a smaller record has left the slot longer than the
\* record.
C5_Witness ==
    /\ LastConfigureOk
    /\ ~InTrace("create_account", last.trace)
    /\ Len(config_data) > Len(serialized_config(StoredConfig))

(***************************************************************************)
(* What the claims about create speak of.                                  *)
(***************************************************************************)
\* token_supply mod 10^decimals = 0, in the integers
WholeMultiple(token_supply, decimals) ==
    IF Pow10Exact(decimals) > U64_MAX THEN token_supply = 0
    ELSE token_supply % Pow10Exact(decimals) = 0

\* token_supply / 10^decimals, in the integers
WholeSupply(token_supply, decimals) ==
    IF Pow10Exact(decimals) > U64_MAX THEN 0
    ELSE token_supply \div Pow10Exact(decimals)

Within(range, value) == range.min <= value /\ value <= range.max

\* the three parameters lie in the ranges of the configuration stored
InRanges(a) ==
    /\ Within(StoredConfig.lamport_amount_config, a.reserve_lamport)
    /\ Within(StoredConfig.token_supply_config,
              WholeSupply(a.token_supply, a.decimals))
    /\ Within(StoredConfig.token_decimals_config, a.decimals)

\* the accounts of the attempt pass their validation
AccountsValid(a) == CreateAccounts(Ledger, a).err = "Ok"

\* the failures of the collaborators
CollaboratorErrors ==
    {"CollaboratorFailure", "InsufficientFunds", "AccountAlreadyInUse"}

\* the steps of the handler body
BodySteps ==
    {"check_params", "set_bonding_curve", "associated_token::create", "mint_to",
     "create_metadata_accounts_v3", "set_authority", "set_is_completed", "emit"}

LastCreate == last.op = "create_bonding_curve"

(***************************************************************************)
(* C6.  A supply that is no whole multiple of 10^decimals fails with       *)
(* InvalidValue and creates nothing.                                       *)
(***************************************************************************)
\* C6 as claimed: for every decimals and token_supply with
\* token_supply mod 10^decimals # 0, whatever the ranges say, an attempt whose
\* accounts are valid fails with ValueInvalid and leaves no mint, record,
\* custody account or metadata.
C6_FractionalSupplyIsInvalidValue ==
    \A a \in CreateArgs :
        (AccountsValid(a) /\ ~WholeMultiple(a.token_supply, a.decimals)) =>
            LET r == CreateHandler(Ledger, a, overflow_checks)
            IN  /\ r.err = "ValueInvalid"
                /\ Committed(Ledger, r) = Ledger
                /\ r.log = <<>>

(***************************************************************************)
(* C7.  Out of its range a parameter fails with OutOfRange, inside the     *)
(* ranges, the ends included, the range checks pass.                       *)
(***************************************************************************)
\* C7 as claimed: for an attempt with valid accounts whose token_supply is a whole
\* multiple of 10^decimals, the attempt fails with OutOfRange when reserve_lamport,
\* token_supply / 10^decimals or decimals is outside its inclusive range, and
\* otherwise passes the checks and succeeds unless a collaborator fails.
C7_RangesDecideOutOfRange ==
    \A a \in CreateArgs :
        (AccountsValid(a) /\ WholeMultiple(a.token_supply, a.decimals)) =>
            LET r == CreateHandler(Ledger, a, overflow_checks)
            IN  /\ ~InRanges(a) => r.err = "OutOfRange"
                /\ InRanges(a) =>
                     /\ InTrace("set_bonding_curve", r.trace)
                     /\ r.err \in {"Ok"} \cup CollaboratorErrors
                     /\ (a.fault = "none" /\ a.creator = "alice") => r.err = "Ok"

(***************************************************************************)
(* C8.  What a successful create leaves.                                   *)
(***************************************************************************)
\* C8: after every successful create the custody account of the new mint holds
\* exactly token_supply, the mint has no mint authority, and the new record has
\* the mint, the creator, the reserve deposit and the supply of the call, no real
\* sol reserves, is_completed false, and the three seed values of the
\* configuration stored when the call was made.
C8_SuccessfulCreateState ==
    \A a \in CreateArgs :
        LET r == CreateHandler(Ledger, a, overflow_checks)
            L == Committed(Ledger, r)
        IN  r.err = "Ok" =>
              /\ ~bonding_curve[a.mint].exists /\ ~token[a.mint].exists
              /\ L.global_token_account[a.mint].exists
              /\ L.global_token_account[a.mint].amount = a.token_supply
              /\ L.global_token_account[a.mint].owner = GLOBAL
              /\ L.token[a.mint].exists
              /\ L.token[a.mint].mint_authority = "none"
              /\ L.token[a.mint].supply = a.token_supply
              /\ L.token[a.mint].decimals = a.decimals
              /\ L.token_metadata_account[a.mint].exists
              /\ L.bonding_curve[a.mint] =
                   [exists |-> TRUE,
                    token_mint |-> a.mint,
                    creator |-> a.creator,
                    init_lamport |-> a.reserve_lamport,
                    token_total_supply |-> a.token_supply,
                    virtual_sol_reserves |->
                        StoredConfig.initial_virtual_sol_reserves_config,
                    virtual_token_reserves |->
                        StoredConfig.initial_virtual_token_reserves_config,
                    real_sol_reserves |-> 0,
                    real_token_reserves |->
                        StoredConfig.initial_real_token_reserves_config,
                    is_completed |-> FALSE]

\* C8 witness: a create has just succeeded and its record is on the ledger.
C8_Witness ==
    /\ LastCreate /\ last.err = "Ok"
    /\ \E m \in Mints : bonding_curve[m].exists /\ bonding_curve[m].creator = last.signer

(***************************************************************************)
(* C9.  A team_wallet that is not the configuration's fails with           *)
(* IncorrectAuthority before anything is created.                          *)
(***************************************************************************)
\* C9 as claimed: an attempt whose team_wallet differs from the configuration's
\* fails with IncorrectAuthority, the check comes before the mint is created,
\* before the BondingCurve slot is created and before any collaborator is
\* called, and no account is created.
C9_TeamWalletCheckedBeforeAnyMutation ==
    /\ (LastCreate /\ last.err = "IncorrectAuthority") =>
          /\ ~InTrace("init_token", last.trace)
          /\ ~InTrace("init_bonding_curve", last.trace)
    /\ ConfigExists =>
          \A a \in CreateArgs :
              a.team_wallet # StoredConfig.team_wallet =>
                  LET r == CreateHandler(Ledger, a, overflow_checks)
                  IN  /\ r.err = "IncorrectAuthority"
                      /\ ~InTrace("init_token", r.trace)
                      /\ ~InTrace("init_bonding_curve", r.trace)
                      /\ Committed(Ledger, r) = Ledger

\* C9 as amended: an attempt whose team_wallet differs from the configuration's
\* fails and no account is created.  The check is part of the validation of
\* the accounts: it comes after the mint and the BondingCurve slot are
\* initialised and before every step of the handler body, so the attempt fails
\* with IncorrectAuthority when both initialisations went through and with the
\* failure of the initialisation otherwise; the initialisations are discarded
\* with the attempt.
C9_TeamWalletCheckedBeforeHandler ==
    ConfigExists =>
        \A a \in CreateArgs :
            a.team_wallet # StoredConfig.team_wallet =>
                LET r == CreateHandler(Ledger, a, overflow_checks)
                    inits == <<"load_global_config", "init_token",
                               "init_bonding_curve", "check_team_wallet">>
                IN  /\ r.err \in {"IncorrectAuthority"} \cup CollaboratorErrors
                    /\ r.err = "IncorrectAuthority" <=> r.trace = inits
                    /\ r.err # "IncorrectAuthority" =>
                         /\ ~InTrace("check_team_wallet", r.trace)
                         /\ \/ token[a.mint].exists
                            \/ bonding_curve[a.mint].exists
                            \/ lamports[a.creator] <
                                 minimum_balance(MINT_LEN)
                                   + minimum_balance(BONDING_CURVE_SPACE)
                    /\ \A i \in 1..Len(r.trace) : r.trace[i] \notin BodySteps
                    /\ Committed(Ledger, r) = Ledger
                    /\ r.log = <<>>

\* C9 witness: a create has just failed with IncorrectAuthority after the mint
\* and the BondingCurve slot had been initialised, and neither is on the ledger.
C9_Witness ==
    /\ LastCreate /\ last.err = "IncorrectAuthority"
    /\ InTrace("init_token", last.trace)
    /\ InTrace("init_bonding_curve", last.trace)
    /\ \E m \in Mints : ~token[m].exists /\ ~bonding_curve[m].exists

(***************************************************************************)
(* C10.  A failed attempt leaves no effect.                                *)
(***************************************************************************)
\* C10: every create or configure that fails, at whatever step, leaves every
\* account, every balance and the config record as they were and logs no
\* LaunchEvent: on the steps taken, and for every configure and create that
\* could be attempted in a reachable state.
C10_FailedAttemptLeavesNoEffect ==
    /\ [][ last'.err # "Ok" =>
             UNCHANGED <<lamports, config_owner, config_data, global_wsol_account,
                         token, bonding_curve, global_token_account,
                         token_metadata_account, events>> ]_vars
    /\ [](\A payer \in Keys, new_config \in Configs :
             LET r == ConfigureHandler(Ledger, payer, new_config)
             IN  r.err # "Ok" => (Committed(Ledger, r) = Ledger /\ r.log = <<>>))
    /\ [](\A a \in LaunchArgs :
             LET r == CreateHandler(Ledger, a, overflow_checks)
             IN  r.err # "Ok" => (Committed(Ledger, r) = Ledger /\ r.log = <<>>))

\* C10 witness: a create has just failed at the revocation of the mint authority,
\* after the custody account was created, the supply minted and the metadata
\* attached, and the mint it was for is not on the ledger.
C10_Witness ==
    /\ LastCreate /\ last.err = "CollaboratorFailure"
    /\ InTrace("set_authority", last.trace)
    /\ \E m \in Mints : ~token[m].exists /\ ~global_token_account[m].exists

(***************************************************************************)
(* C11.  At most one BondingCurve record per mint.                         *)
(***************************************************************************)
\* C11: over every sequence of instructions there is at most one BondingCurve
\* record per mint: the record at the address derived from a mint is the record
\* of that mint, a create for a mint that exists or has a record fails at the
\* init of the mint with nothing changed, and no step changes a record that
\* exists.
C11_OneRecordPerMint ==
    /\ [](\A m \in Mints :
            /\ bonding_curve[m].exists => bonding_curve[m].token_mint = m
            /\ Cardinality({n \in Mints : /\ bonding_curve[n].exists
                                         /\ bonding_curve[n].token_mint = m}) <= 1)
    /\ [](\A a \in LaunchArgs :
            (bonding_curve[a.mint].exists \/ token[a.mint].exists) =>
                LET r == CreateHandler(Ledger, a, overflow_checks)
                IN  /\ r.err = "AccountAlreadyInUse"
                    /\ r.trace = <<"load_global_config", "init_token">>
                    /\ Committed(Ledger, r) = Ledger
                    /\ r.log = <<>>)
    /\ [][ \A m \in Mints :
             bonding_curve[m].exists => bonding_curve'[m] = bonding_curve[m] ]_vars

\* C11 witness: a create for a mint that has its record has just failed at the
\* init of the mint.
C11_Witness ==
    /\ LastCreate /\ last.err = "AccountAlreadyInUse"
    /\ last.trace = <<"load_global_config", "init_token">>
    /\ \E m \in Mints : bonding_curve[m].exists /\ token[m].exists

(***************************************************************************)
(* C12.  A slot of the program without the Config tag is rejected.         *)
(***************************************************************************)
\* C12: a configure on a slot the program owns whose first 8 bytes are absent or
\* are not the tag of Config fails with IncorrectConfigAccount, whatever the rest
\* of the data decodes to and whoever the payer is (the tag is looked at before
\* the record is deserialized and before the authority is compared), and the
\* slot is left as it was.
C12_ForeignSlotRejected ==
    (config_owner = PROGRAM_ID /\ DiscriminatorMismatch(config_data)) =>
        \A payer \in Keys, new_config \in Configs :
            LET r == ConfigureHandler(Ledger, payer, new_config)
            IN  /\ r.err = "IncorrectConfigAccount"
                /\ ~InTrace("transfer", r.trace)
                /\ ~InTrace("realloc", r.trace)
                /\ ~InTrace("write", r.trace)
                /\ Committed(Ledger, r) = Ledger
                /\ r.log = <<>>

\* C12 witness: a configure has just been rejected with IncorrectConfigAccount
\* on a slot whose data after the first 8 bytes is a record, by a payer who is
\* not the authority of that record.
C12_Witness ==
    /\ last.op = "configure" /\ last.err = "IncorrectConfigAccount"
    /\ config_owner = PROGRAM_ID
    /\ DiscriminatorMismatch(config_data)
    /\ Decoded(config_data).ok
    /\ Decoded(config_data).config.authority # last.signer

(***************************************************************************)
(* C13.  The vault is bootstrapped once.                                   *)
(***************************************************************************)
\* C13: a successful configure moves the bootstrap amount from the payer to the
\* vault exactly when the vault holds nothing at that step and leaves the balance
\* of a vault that holds something as it is; so the vault holds something after
\* every successful configure, its balance never goes down, no create changes
\* it, and over every sequence of instructions configure funds it at most once.
C13_VaultBootstrappedOnce ==
    /\ [](\A payer \in Keys, new_config \in Configs :
            LET r == ConfigureHandler(Ledger, payer, new_config)
                funded == IF lamports[GLOBAL] = 0 THEN VAULT_BOOTSTRAP ELSE 0
                wsol == IF global_wsol_account THEN 0
                        ELSE minimum_balance(TOKEN_ACCOUNT_LEN)
            IN  r.err = "Ok" =>
                  /\ InTrace("bootstrap_vault", r.trace) <=> lamports[GLOBAL] = 0
                  /\ r.ledger.lamports[GLOBAL] = lamports[GLOBAL] + funded
                  /\ r.ledger.lamports[GLOBAL] > 0
                  /\ r.ledger.lamports[payer] =
                       lamports[payer] - funded - wsol
                         - (r.ledger.lamports[CONFIG] - lamports[CONFIG])
                  /\ \A k \in Keys \ {payer} : r.ledger.lamports[k] = lamports[k])
    /\ [][ /\ lamports'[GLOBAL] >= lamports[GLOBAL]
           /\ (last'.op = "configure" /\ lamports'[GLOBAL] # lamports[GLOBAL]) =>
                 (lamports[GLOBAL] = 0 /\ lamports'[GLOBAL] = VAULT_BOOTSTRAP)
           /\ (last'.op = "configure" /\ last'.err = "Ok") => lamports'[GLOBAL] > 0
           /\ last'.op = "create_bonding_curve" =>
                 lamports'[GLOBAL] = lamports[GLOBAL] ]_vars

\* C13 witness: a configure has just succeeded on a vault funded by an earlier
\* configure, and the vault holds the bootstrap amount still.
C13_Witness ==
    /\ LastConfigureOk
    /\ ~InTrace("bootstrap_vault", last.trace)
    /\ ~InTrace("create_account", last.trace)
    /\ lamports[GLOBAL] = VAULT_BOOTSTRAP

(***************************************************************************)
(* C14.  The order of the steps of a successful create.                    *)
(***************************************************************************)
\* step x comes before step y
Before(x, y, trace) ==
    \E i, j \in 1..Len(trace) : i < j /\ trace[i] = x /\ trace[j] = y

\* the steps of a successful create, in the order of the code
CreateSteps ==
    <<"load_global_config", "init_token", "init_bonding_curve", "check_team_wallet",
      "check_params", "set_bonding_curve", "associated_token::create", "mint_to",
      "create_metadata_accounts_v3", "set_authority", "set_is_completed", "emit",
      "exit">>

\* C14 as claimed: every successful create validates the parameters, then creates
\* the mint, then the custody account, then mints the supply, then attaches the
\* metadata, then revokes the mint authority, then persists the record, then
\* emits the event.
C14_ClaimedOrder ==
    \A a \in CreateArgs :
        LET t == CreateHandler(Ledger, a, overflow_checks).trace
        IN  CreateHandler(Ledger, a, overflow_checks).err = "Ok" =>
              /\ Before("check_params", "init_token", t)
              /\ Before("init_token", "associated_token::create", t)
              /\ Before("associated_token::create", "mint_to", t)
              /\ Before("mint_to", "create_metadata_accounts_v3", t)
              /\ Before("create_metadata_accounts_v3", "set_authority", t)
              /\ Before("set_authority", "exit", t)
              /\ Before("exit", "emit", t)

\* C14 as amended: every successful create takes these steps, each once, in this
\* order: the configuration is loaded, the mint is created, the BondingCurve
\* slot is created, the team_wallet is checked, the parameters are validated,
\* the fields of the record are set, the custody account is created, the supply
\* is minted, the metadata is attached, the mint authority is revoked,
\* is_completed is cleared, the event is emitted, the record is written back to
\* its slot.
C14_StepsInCodeOrder ==
    \A a \in CreateArgs :
        LET r == CreateHandler(Ledger, a, overflow_checks)
        IN  r.err = "Ok" =>
              /\ r.trace = CreateSteps
              /\ Before("init_token", "check_params", r.trace)
              /\ Before("mint_to", "set_authority", r.trace)
              /\ Before("create_metadata_accounts_v3", "set_authority", r.trace)
              /\ Before("set_bonding_curve", "emit", r.trace)
              /\ Before("emit", "exit", r.trace)

\* C14 witness: a create has just succeeded by these steps.
C14_Witness ==
    /\ LastCreate /\ last.err = "Ok"
    /\ last.trace = CreateSteps
    /\ Len(events) > 0

(***************************************************************************)
(* C15.  Every create ends in success or in a specified failure.           *)
(***************************************************************************)
\* the failures a create is specified to end in
SpecifiedErrors ==
    {"ValueInvalid", "OutOfRange", "IncorrectAuthority"} \cup CollaboratorErrors

\* C15 as claimed: for every decimals of a u8 and every token_supply and
\* reserve_lamport, a create ends in success or in one of the specified
\* failures; 10^decimals is computed without overflow, nothing is divided by
\* zero, and with decimals outside the configured range the attempt whose
\* accounts are valid ends in OutOfRange or ValueInvalid.
C15_NoArithmeticFailure ==
    \A a \in CreateArgs :
        LET r == CreateHandler(Ledger, a, overflow_checks)
        IN  /\ r.err \in {"Ok"} \cup SpecifiedErrors
            /\ InTrace("check_params", r.trace) =>
                 /\ ~pow(a.decimals, overflow_checks).panic
                 /\ pow(a.decimals, overflow_checks).value = Pow10Exact(a.decimals)
            /\ (AccountsValid(a)
                  /\ ~Within(StoredConfig.token_decimals_config, a.decimals)) =>
                 r.err \in {"OutOfRange", "ValueInvalid"}

(***************************************************************************)
(* C16.  Creates for different mints.                                      *)
(***************************************************************************)
\* the slots an attempt declares writable: the accounts of CreateBondingCurve
\* that are `mut` or `init`
WritableSlots(a) ==
    { <<"global_config", CONFIG>>, <<"global_vault", GLOBAL>>,
      <<"creator", a.creator>>, <<"token", a.mint>>, <<"bonding_curve", a.mint>>,
      <<"token_metadata_account", a.mint>>, <<"global_token_account", a.mint>>,
      <<"team_wallet", a.team_wallet>> }

\* the address of a declared slot
SlotAddress(s) == s[2]

\* the ledger after attempt a and then attempt b
AfterBoth(L, a, b, checks) ==
    LET L1 == Committed(L, CreateHandler(L, a, checks))
    IN  Committed(L1, CreateHandler(L1, b, checks))

\* C16 as claimed: two creates for different mints declare no writable slot in
\* common, and made in either order from the same state they leave the same
\* ledger.
C16_DisjointAndCommute ==
    \A a, b \in LaunchArgs :
        a.mint # b.mint =>
            /\ { SlotAddress(s) : s \in WritableSlots(a) }
                 \cap { SlotAddress(s) : s \in WritableSlots(b) } = {}
            /\ AfterBoth(Ledger, a, b, overflow_checks)
                 = AfterBoth(Ledger, b, a, overflow_checks)

(***************************************************************************)
(* C17.  The supply of a launched mint is final.                           *)
(***************************************************************************)
\* C17: in every state after a create has succeeded for a mint, whatever
\* configure and create calls followed, the mint has no mint authority, and its
\* supply is the token_total_supply of its record and the amount its custody
\* account holds; no later step changes the mint or the custody account.
C17_SupplyFixedForever ==
    /\ [](\A m \in Mints :
            bonding_curve[m].exists =>
                /\ token[m].exists
                /\ token[m].mint_authority = "none"
                /\ token[m].supply = bonding_curve[m].token_total_supply
                /\ global_token_account[m].exists
                /\ global_token_account[m].amount = token[m].supply)
    /\ [][ \A m \in Mints :
             token[m].exists =>
                 /\ token'[m] = token[m]
                 /\ global_token_account'[m] = global_token_account[m] ]_vars

\* C17 witness: a configure has succeeded and a create for another mint has
\* been made after the launch of a mint whose supply is not zero.
C17_Witness ==
    /\ \E m \in Mints :
          /\ bonding_curve[m].exists
          /\ token[m].supply > 0
          /\ token[m].mint_authority = "none"
          /\ \E n \in Mints \ {m} : bonding_curve[n].exists
    /\ LastConfigureOk
    /\ ~InTrace("create_account", last.trace)

(***************************************************************************)
(* C18.  A create works on the configuration committed before it.          *)
(***************************************************************************)
\* C18: while no configure has succeeded the config slot is not the program's
\* and every create fails at the load of the configuration; a record exists
\* only where a configuration is stored; and a create that succeeds has its
\* team_wallet, its three ranges and the three seed values of its record from
\* the configuration stored in the state it was made in, which it leaves as it
\* is.
C18_CreateReadsCommittedConfig ==
    /\ [](config_owner # PROGRAM_ID =>
            /\ \A m \in Mints : ~bonding_curve[m].exists /\ ~token[m].exists
            /\ events = <<>>
            /\ \A a \in LaunchArgs :
                 LET r == CreateHandler(Ledger, a, overflow_checks)
                 IN  /\ r.err \in {"AccountNotInitialized", "AccountOwnedByWrongProgram"}
                     /\ r.trace = <<"load_global_config">>)
    /\ [](config_owner = PROGRAM_ID => ConfigExists)
    /\ [](ConfigExists =>
            \A a \in LaunchArgs :
                LET r == CreateHandler(Ledger, a, overflow_checks)
                    rec == r.ledger.bonding_curve[a.mint]
                    m == pow(a.decimals, overflow_checks).value
                IN  r.err = "Ok" =>
                      /\ a.team_wallet = StoredConfig.team_wallet
                      /\ Within(StoredConfig.lamport_amount_config, a.reserve_lamport)
                      /\ Within(StoredConfig.token_supply_config, a.token_supply \div m)
                      /\ Within(StoredConfig.token_decimals_config, a.decimals)
                      /\ rec.virtual_sol_reserves =
                            StoredConfig.initial_virtual_sol_reserves_config
                      /\ rec.virtual_token_reserves =
                            StoredConfig.initial_virtual_token_reserves_config
                      /\ rec.real_token_reserves =
                            StoredConfig.initial_real_token_reserves_config
                      /\ r.log[1].reserve_token =
                            StoredConfig.initial_real_token_reserves_config
                      /\ r.ledger.config_data = config_data
                      /\ r.ledger.config_owner = config_owner)
    /\ [][ (last'.op = "create_bonding_curve" /\ last'.err = "Ok") =>
             /\ ConfigExists
             /\ UNCHANGED <<config_data, config_owner>>
             /\ \E m \in Mints :
                  /\ ~bonding_curve[m].exists /\ bonding_curve'[m].exists
                  /\ bonding_curve'[m].virtual_sol_reserves =
                        StoredConfig.initial_virtual_sol_reserves_config
                  /\ bonding_curve'[m].virtual_token_reserves =
                        StoredConfig.initial_virtual_token_reserves_config
                  /\ bonding_curve'[m].real_token_reserves =
                        StoredConfig.initial_real_token_reserves_config ]_vars

\* C18 witness: a create has just succeeded under a configuration that replaced
\* the one an earlier create was made under: the two records carry the seed
\* values of different configurations.
C18_Witness ==
    /\ LastCreate /\ last.err = "Ok"
    /\ ConfigExists
    /\ \E m, n \in Mints :
          /\ bonding_curve[m].exists /\ bonding_curve[n].exists
          /\ bonding_curve[m].virtual_sol_reserves =
                StoredConfig.initial_virtual_sol_reserves_config
          /\ bonding_curve[n].virtual_sol_reserves #
                StoredConfig.initial_virtual_sol_reserves_config

(***************************************************************************)
(* C19.  What a successful create leaves alone.                            *)
(***************************************************************************)
\* the rent deposits a successful create takes from the creator
LaunchRents ==
    minimum_balance(MINT_LEN) + minimum_balance(BONDING_CURVE_SPACE)
      + minimum_balance(TOKEN_ACCOUNT_LEN) + minimum_balance(METADATA_LEN)

\* C19 as claimed: a successful create leaves the config record, the balance of
\* the vault, the balance of the team_wallet and every record created before as
\* they were; the reserve deposit is recorded as init_lamport only.
C19_CreateFrame ==
    \A a \in LaunchArgs :
        LET r == CreateHandler(Ledger, a, overflow_checks)
        IN  r.err = "Ok" =>
              /\ r.ledger.config_data = config_data
              /\ r.ledger.config_owner = config_owner
              /\ r.ledger.lamports[GLOBAL] = lamports[GLOBAL]
              /\ r.ledger.lamports[a.team_wallet] = lamports[a.team_wallet]
              /\ \A m \in Mints \ {a.mint} :
                    r.ledger.bonding_curve[m] = bonding_curve[m]
              /\ r.ledger.bonding_curve[a.mint].init_lamport = a.reserve_lamport
              /\ r.ledger.bonding_curve[a.mint].real_sol_reserves = 0

\* C19 as amended: a successful create leaves the config record, the balances
\* of the config slot and of the vault and every record created before as they
\* were, and takes from the creator the rent deposits of the four accounts it
\* creates and nothing else: the reserve deposit is recorded as init_lamport,
\* is not counted in real_sol_reserves and is not taken from the creator.  The
\* team_wallet receives nothing; its balance is as it was unless the
\* team_wallet is the creator, who pays the rent deposits.
C19_CreateFrameButCreator ==
    \A a \in LaunchArgs :
        LET r == CreateHandler(Ledger, a, overflow_checks)
        IN  r.err = "Ok" =>
              /\ r.ledger.config_data = config_data
              /\ r.ledger.config_owner = config_owner
              /\ r.ledger.lamports[GLOBAL] = lamports[GLOBAL]
              /\ r.ledger.lamports[CONFIG] = lamports[CONFIG]
              /\ r.ledger.lamports[a.creator] = lamports[a.creator] - LaunchRents
              /\ \A k \in Keys \ {a.creator} : r.ledger.lamports[k] = lamports[k]
              /\ a.team_wallet # a.creator =>
                    r.ledger.lamports[a.team_wallet] = lamports[a.team_wallet]
              /\ a.team_wallet = a.creator =>
                    r.ledger.lamports[a.team_wallet] < lamports[a.team_wallet]
              /\ \A m \in Mints \ {a.mint} :
                    r.ledger.bonding_curve[m] = bonding_curve[m]
              /\ r.ledger.bonding_curve[a.mint].init_lamport = a.reserve_lamport
              /\ r.ledger.bonding_curve[a.mint].real_sol_reserves = 0

\* C19 witness: a create by the team_wallet itself has just succeeded while the
\* record of another mint existed; the vault holds what configure gave it and
\* the new record has a reserve deposit and no real sol reserves.
C19_Witness ==
    /\ LastCreate /\ last.err = "Ok"
    /\ ConfigExists /\ last.signer = StoredConfig.team_wallet
    /\ lamports[GLOBAL] = VAULT_BOOTSTRAP
    /\ \A m \in Mints :
          /\ bonding_curve[m].exists
          /\ bonding_curve[m].init_lamport > 0
          /\ bonding_curve[m].real_sol_reserves = 0

(***************************************************************************)
(* C20.  Only the stored authority changes the record, and hands it over.  *)
(***************************************************************************)
\* C20: over every sequence of configure calls the data of the config slot
\* changes only in a successful configure that creates the slot or whose payer is
\* the authority stored before the call; every successful configure stores the
\* authority of the proposed config; so once an update has named another
\* authority, the calls of the previous one fail with IncorrectAuthority and
\* change nothing, and the calls of the new one pass the check of the authority,
\* for as long as that authority is the one stored.
C20_OnlyAuthorityMutates ==
    /\ [][ (config_data' # config_data \/ config_owner' # config_owner) =>
             /\ last'.op = "configure" /\ last'.err = "Ok"
             /\ \/ config_owner # PROGRAM_ID
                \/ ConfigExists /\ last'.signer = StoredConfig.authority ]_vars
    /\ [](\A payer \in Keys, new_config \in Configs :
            LET r == ConfigureHandler(Ledger, payer, new_config)
                after == Decoded(r.ledger.config_data)
            IN  r.err = "Ok" =>
                  /\ after.ok
                  /\ after.config.authority = new_config.authority
                  /\ \A later \in Keys, next_config \in Configs :
                        LET q == ConfigureHandler(r.ledger, later, next_config)
                        IN  IF later # new_config.authority
                            THEN /\ q.err = "IncorrectAuthority"
                                 /\ Committed(r.ledger, q) = r.ledger
                            ELSE q.err # "IncorrectAuthority")

\* C20 witness: an update by the stored authority has just named another
\* authority, so the payer of the last successful configure is not the
\* authority stored now.
C20_Witness ==
    /\ LastConfigureOk
    /\ ~InTrace("create_account", last.trace)
    /\ InTrace("validate_existing", last.trace)
    /\ ConfigExists
    /\ StoredConfig.authority # last.signer

====
